---- MODULE Spec2Model ----
(***************************************************************************)
(* Model of systers_portal/meetup/forms.py: the meetup forms, their        *)
(* clean_date / clean_time validators and their save hooks, over an        *)
(* abstract database (the tables the forms write), an abstract clock       *)
(* (timezone.now) and an abstract meeting provider (create_meetup,         *)
(* edit_meetup, get_meetup).                                               *)
(***************************************************************************)
EXTENDS Integers, Sequences, FiniteSets, Bags, TLC

(* ----------------------------- bounds ---------------------------------- *)
\* the clock runs over 0..MaxClock; a day has TimesPerDay instants
MaxClock == 3
TimesPerDay == 2
\* users 1..MaxUser may be handed to a form constructor
MaxUser == 2
\* the meeting provider answers with one of MaxResp payloads
MaxResp == 2
\* at most MaxRows rows in the tables together, MaxImages MeetupImages rows
MaxRows == 2
MaxImages == 2
\* at most MaxUpload files in one submission
MaxUpload == 2
\* objects 1..MaxObject may be handed to a constructor as meetup / content_object
MaxObject == 2

VARIABLES clock, Meetup, MeetupImages, RequestMeetup, Comment, Rsvp,
          SupportRequest, last, trace

vars == <<clock, Meetup, MeetupImages, RequestMeetup, Comment, Rsvp,
          SupportRequest, last, trace>>

(* ----------------------------- values ---------------------------------- *)
\* Python's None (an absent time, an unsaved instance's pk, an unset field)
None == 0 - 1

\* timezone.now().date() and timezone.now().time() of a clock reading
Date(now) == now \div TimesPerDay
Time(now) == now % TimesPerDay

Users == 1..MaxUser
Objects == 1..MaxObject
Dates == 0..Date(MaxClock)
Times == {None} \cup (0..(TimesPerDay - 1))
\* cleaned_data['images']: the n uploaded files of a submission, in order
Uploads == {[i \in 1..n |-> i] : n \in 0..MaxUpload}

\* the three clock readings of one validation (clean_date, then the two of
\* clean_time): the clock may advance by one instant while the request runs
Readings == {r \in [1..3 -> 0..MaxClock] :
                /\ r[1] = clock
                /\ r[1] <= r[2] /\ r[2] <= r[3]
                /\ r[3] <= clock + 1}

\* the payload the meeting provider returns to create_meetup and get_meetup;
\* NoAnswer where the provider is not called
meet_data(k) == [join_url |-> 10 * k + 1, start_url |-> 10 * k + 2, id |-> 10 * k + 3]
NoAnswer == meet_data(0)
Answers == {meet_data(k) : k \in 0..MaxResp}

\* the outcome of a clean_<field> method
ValidationError(code) == [raised |-> TRUE, code |-> code, value |-> None]
Return(value) == [raised |-> FALSE, code |-> "", value |-> value]

\* SystersUser.objects.get(user=...): the profile row of an auth user
SystersUser_objects_get(user) == 100 + user

(* ------------------------ clean_date / clean_time ---------------------- *)
\* cleaned_data is [date, time]; a field that failed validation is None.
\* "if time:" is false only for None (a datetime.time is always true).

RequestMeetupForm_clean_date(cleaned_data, now) ==
    LET date == cleaned_data.date
    IN  IF date < Date(now)
        THEN ValidationError("date_in_past")
        ELSE Return(date)

RequestMeetupForm_clean_time(cleaned_data, now1, now2) ==
    LET time == cleaned_data.time
        date == cleaned_data.date
    IN  IF time # None /\ date = Date(now1) /\ time < Time(now2)
        THEN ValidationError("time_in_past")
        ELSE Return(time)

\* variant: today's date is rejected too
AddMeetupForm_clean_date_today_rejected(cleaned_data, now) ==
    LET date == cleaned_data.date
    IN  IF date <= Date(now)
        THEN ValidationError("invalid")
        ELSE Return(date)

AddMeetupForm_clean_date(cleaned_data, now) ==
    LET date == cleaned_data.date
    IN  IF date < Date(now)
        THEN ValidationError("invalid")
        ELSE Return(date)

AddMeetupForm_clean_time(cleaned_data, now1, now2) ==
    LET time == cleaned_data.time
        date == cleaned_data.date
    IN  IF time # None /\ date = Date(now1) /\ time < Time(now2)
        THEN ValidationError("invalid")
        ELSE Return(time)

RequestVirtualMeetupForm_clean_date(cleaned_data, now) ==
    LET date == cleaned_data.date
    IN  IF date < Date(now)
        THEN ValidationError("date_in_past")
        ELSE Return(date)

\* variant: the time is compared on every date, not only today's
RequestVirtualMeetupForm_clean_time_any_date(cleaned_data, now1, now2) ==
    LET time == cleaned_data.time
    IN  IF time # None /\ time < Time(now2)
        THEN ValidationError("time_in_past")
        ELSE Return(time)

RequestVirtualMeetupForm_clean_time(cleaned_data, now1, now2) ==
    LET time == cleaned_data.time
        date == cleaned_data.date
    IN  IF time # None /\ date = Date(now1) /\ time < Time(now2)
        THEN ValidationError("time_in_past")
        ELSE Return(time)

\* Field cleaning in Meta.fields order: 'date' before 'time'.  A field whose
\* clean method raised is dropped from cleaned_data, so clean_time then reads
\* date as None.
RequestMeetupForm_full_clean(date, time, r) ==
    LET d == RequestMeetupForm_clean_date([date |-> date, time |-> None], r[1])
        t == RequestMeetupForm_clean_time([date |-> d.value, time |-> time], r[2], r[3])
    IN  [date |-> d, time |-> t, valid |-> ~d.raised /\ ~t.raised]

AddMeetupForm_full_clean(date, time, r) ==
    LET d == AddMeetupForm_clean_date([date |-> date, time |-> None], r[1])
        t == AddMeetupForm_clean_time([date |-> d.value, time |-> time], r[2], r[3])
    IN  [date |-> d, time |-> t, valid |-> ~d.raised /\ ~t.raised]

RequestVirtualMeetupForm_full_clean(date, time, r) ==
    LET d == RequestVirtualMeetupForm_clean_date([date |-> date, time |-> None], r[1])
        t == RequestVirtualMeetupForm_clean_time([date |-> d.value, time |-> time], r[2], r[3])
    IN  [date |-> d, time |-> t, valid |-> ~d.raised /\ ~t.raised]

(* ------------------------------ state ----------------------------------- *)
Init ==
    /\ clock = 0
    /\ Meetup = <<>>
    /\ MeetupImages = EmptyBag
    /\ RequestMeetup = <<>>
    /\ Comment = <<>>
    /\ Rsvp = <<>>
    /\ SupportRequest = <<>>
    /\ last = [op |-> "none"]
    /\ trace = <<>>

db == <<Meetup, MeetupImages, RequestMeetup, Comment, Rsvp, SupportRequest>>

\* Requests are served one at a time: last and trace hold the request being
\* served (its inputs, its outcome, its writes and provider calls in program
\* order) until the response is returned.
Idle == last.op = "none"

Respond ==
    /\ ~Idle
    /\ last' = [op |-> "none"]
    /\ trace' = <<>>
    /\ UNCHANGED <<clock, db>>

\* time passes between requests
Tick ==
    /\ Idle
    /\ clock < MaxClock
    /\ clock' = clock + 1
    /\ UNCHANGED <<db, last, trace>>

(* --------------------------- validation only ---------------------------- *)
\* form.is_valid() on a bound form: the clean methods run, nothing is saved
is_valid(form, date, time, r, cleaned) ==
    /\ Idle
    /\ clock' = r[3]
    /\ last' = [op |-> "is_valid", form |-> form, date |-> date, time |-> time,
                now |-> r, cleaned |-> cleaned]
    /\ trace' = <<>>
    /\ UNCHANGED db

RequestMeetupForm_is_valid ==
    \E date \in Dates, time \in Times, r \in Readings :
        is_valid("RequestMeetupForm", date, time, r,
                 RequestMeetupForm_full_clean(date, time, r))

AddMeetupForm_is_valid ==
    \E date \in Dates, time \in Times, r \in Readings :
        is_valid("AddMeetupForm", date, time, r,
                 AddMeetupForm_full_clean(date, time, r))

RequestVirtualMeetupForm_is_valid ==
    \E date \in Dates, time \in Times, r \in Readings :
        is_valid("RequestVirtualMeetupForm", date, time, r,
                 RequestVirtualMeetupForm_full_clean(date, time, r))

NextClean ==
    \/ Tick
    \/ Respond
    \/ RequestMeetupForm_is_valid
    \/ AddMeetupForm_is_valid
    \/ RequestVirtualMeetupForm_is_valid

SpecClean == Init /\ [][NextClean]_vars

(* ------------------------- database and provider ------------------------ *)
\* one database write or provider call of a save, in program order
Ev(ev, tbl, row) == [ev |-> ev, tbl |-> tbl, row |-> row]

\* instances as ModelForm construction leaves them: the form's fields are
\* set from cleaned_data, pk and the fields the form excludes are unset
NewMeetup(date, is_virtual) ==
    [pk |-> None, date |-> date, is_virtual |-> is_virtual,
     created_by |-> None, leader |-> None,
     meet_link |-> None, start_url |-> None, meeting_id |-> None]
NewRequestMeetup(date) ==
    [pk |-> None, date |-> date, is_virtual |-> FALSE, created_by |-> None]
NewComment == [pk |-> None, content_object |-> None, author |-> None]
NewRsvp == [pk |-> None, user |-> None, meetup |-> None]
NewSupportRequest == [pk |-> None, volunteer |-> None, meetup |-> None]

\* instance.save(): INSERT a new row under the next pk, UPDATE an existing one
Model_save(tbl, table, instance) ==
    IF instance.pk = None
    THEN LET row == [instance EXCEPT !.pk = Len(table) + 1]
         IN  [table |-> Append(table, row), instance |-> row,
              trace |-> <<Ev("INSERT", tbl, row)>>]
    ELSE [table |-> [table EXCEPT ![instance.pk] = instance], instance |-> instance,
          trace |-> <<Ev("UPDATE", tbl, instance)>>]

\* super().save(commit): the ModelForm's own save
ModelForm_save(tbl, table, instance, commit) ==
    IF commit
    THEN Model_save(tbl, table, instance)
    ELSE [table |-> table, instance |-> instance, trace |-> <<>>]

\* the bag of the elements of a sequence
SeqToBag(seq) ==
    [x \in {seq[i] : i \in DOMAIN seq} |-> Cardinality({i \in DOMAIN seq : seq[i] = x})]

\* for img in images: MeetupImages.objects.create(image=img, meetup=instance).
\* Creating a row for an instance without pk raises (ValueError: unsaved
\* related object) at the first image; no row is written.
MeetupImages_create(table, images, instance) ==
    LET rows == [i \in DOMAIN images |-> [image |-> images[i], meetup |-> instance.pk]]
    IN  IF images = <<>>
        THEN [table |-> table, trace |-> <<>>, raised |-> FALSE]
        ELSE IF instance.pk = None
        THEN [table |-> table, trace |-> <<>>, raised |-> TRUE]
        ELSE [table |-> table (+) SeqToBag(rows),
              trace |-> [i \in DOMAIN rows |-> Ev("INSERT", "MeetupImages", rows[i])],
              raised |-> FALSE]

\* MeetupImages.objects.filter(meetup=instance).delete()
MeetupImages_filter_delete(table, instance) ==
    LET gone == {row \in DOMAIN table : row.meetup = instance.pk}
    IN  [table |-> [row \in DOMAIN table \ gone |-> table[row]],
         trace |-> IF gone = {} THEN <<>>
                   ELSE <<Ev("DELETE", "MeetupImages", [meetup |-> instance.pk])>>]

(* ------------------------------- save hooks ----------------------------- *)
\* self is the form: the constructor's kwargs, the instance built from
\* cleaned_data, and cleaned_data['images'] where the form has the field

RequestMeetupForm_save(self, commit, table) ==
    LET instance == [self.instance EXCEPT
                        !.created_by = SystersUser_objects_get(self.user)]
    IN  IF commit
        THEN Model_save("RequestMeetup", table, instance)
        ELSE [table |-> table, instance |-> instance, trace |-> <<>>]

RequestVirtualMeetupForm_save(self, commit, table) ==
    LET instance == [self.instance EXCEPT
                        !.created_by = SystersUser_objects_get(self.user),
                        !.is_virtual = TRUE]
    IN  IF commit
        THEN Model_save("RequestMeetup", table, instance)
        ELSE [table |-> table, instance |-> instance, trace |-> <<>>]

AddMeetupCommentForm_save(self, commit, table) ==
    LET instance == [self.instance EXCEPT
                        !.content_object = self.content_object,
                        !.author = SystersUser_objects_get(self.author)]
    IN  IF commit
        THEN Model_save("Comment", table, instance)
        ELSE [table |-> table, instance |-> instance, trace |-> <<>>]

AddSupportRequestCommentForm_save(self, commit, table) ==
    LET instance == [self.instance EXCEPT
                        !.content_object = self.content_object,
                        !.author = SystersUser_objects_get(self.author)]
    IN  IF commit
        THEN Model_save("Comment", table, instance)
        ELSE [table |-> table, instance |-> instance, trace |-> <<>>]

\* variant: the ModelForm saves first (super().save(commit)), the fields are
\* stamped afterwards and the instance is saved again
RsvpForm_save_before_stamping(self, commit, table) ==
    LET saved == ModelForm_save("Rsvp", table, self.instance, commit)
        instance == [saved.instance EXCEPT
                        !.user = SystersUser_objects_get(self.user),
                        !.meetup = self.meetup]
        again == ModelForm_save("Rsvp", saved.table, instance, commit)
    IN  [table |-> again.table, instance |-> again.instance,
         trace |-> saved.trace \o again.trace]

RsvpForm_save(self, commit, table) ==
    LET instance == [self.instance EXCEPT
                        !.user = SystersUser_objects_get(self.user),
                        !.meetup = self.meetup]
    IN  IF commit
        THEN Model_save("Rsvp", table, instance)
        ELSE [table |-> table, instance |-> instance, trace |-> <<>>]

AddSupportRequestForm_save(self, commit, table) ==
    LET instance == [self.instance EXCEPT
                        !.volunteer = SystersUser_objects_get(self.volunteer),
                        !.meetup = self.meetup]
    IN  IF commit
        THEN Model_save("SupportRequest", table, instance)
        ELSE [table |-> table, instance |-> instance, trace |-> <<>>]

\* variant: the provider is called after the meetup is written
AddMeetupForm_save_provider_last(self, commit, data, table, images) ==
    LET stamped == [self.instance EXCEPT
                        !.created_by = SystersUser_objects_get(self.created_by),
                        !.leader = SystersUser_objects_get(self.created_by)]
        saved == ModelForm_save("Meetup", table, stamped, commit)
        created == MeetupImages_create(images, self.cleaned_data.images, saved.instance)
        called == IF stamped.is_virtual
                  THEN <<Ev("create_meetup", "", None)>>
                  ELSE <<>>
        instance == IF stamped.is_virtual
                    THEN [saved.instance EXCEPT !.meet_link = data.join_url,
                                                !.start_url = data.start_url,
                                                !.meeting_id = data.id]
                    ELSE saved.instance
    IN  [Meetup |-> saved.table, MeetupImages |-> created.table,
         instance |-> instance, raised |-> created.raised,
         trace |-> saved.trace \o created.trace \o called]

\* data is what create_meetup returns if it is called
AddMeetupForm_save(self, commit, data, table, images) ==
    LET stamped == [self.instance EXCEPT
                        !.created_by = SystersUser_objects_get(self.created_by),
                        !.leader = SystersUser_objects_get(self.created_by)]
        instance == IF stamped.is_virtual
                    THEN [stamped EXCEPT !.meet_link = data.join_url,
                                         !.start_url = data.start_url,
                                         !.meeting_id = data.id]
                    ELSE stamped
        called == IF stamped.is_virtual
                  THEN <<Ev("create_meetup", "", None)>>
                  ELSE <<>>
        saved == IF commit
                 THEN Model_save("Meetup", table, instance)
                 ELSE [table |-> table, instance |-> instance, trace |-> <<>>]
        created == MeetupImages_create(images, self.cleaned_data.images, saved.instance)
    IN  [Meetup |-> saved.table, MeetupImages |-> created.table,
         instance |-> saved.instance, raised |-> created.raised,
         trace |-> called \o saved.trace \o created.trace]

\* variant: MeetupImages.objects.all().delete() instead of the filter
EditMeetupForm_save_all_deleted(self, commit, data, table, images) ==
    LET saved == ModelForm_save("Meetup", table, self.instance, commit)
        created == MeetupImages_create(EmptyBag, self.cleaned_data.images,
                                       saved.instance)
        virtual == saved.instance.is_virtual
        called == IF virtual
                  THEN <<Ev("edit_meetup", "", None), Ev("get_meetup", "", None)>>
                  ELSE <<>>
        instance == IF virtual
                    THEN [saved.instance EXCEPT !.meet_link = data.join_url,
                                                !.start_url = data.start_url,
                                                !.meeting_id = data.id]
                    ELSE saved.instance
    IN  [Meetup |-> saved.table, MeetupImages |-> created.table,
         instance |-> instance, raised |-> created.raised,
         trace |-> saved.trace \o <<Ev("DELETE", "MeetupImages", [meetup |-> None])>>
                   \o created.trace \o called]

\* data is what get_meetup returns if it is called
EditMeetupForm_save(self, commit, data, table, images) ==
    LET saved == ModelForm_save("Meetup", table, self.instance, commit)
        deleted == MeetupImages_filter_delete(images, saved.instance)
        created == MeetupImages_create(deleted.table, self.cleaned_data.images,
                                       saved.instance)
        virtual == saved.instance.is_virtual
        called == IF virtual
                  THEN <<Ev("edit_meetup", "", None), Ev("get_meetup", "", None)>>
                  ELSE <<>>
        instance == IF virtual
                    THEN [saved.instance EXCEPT !.meet_link = data.join_url,
                                                !.start_url = data.start_url,
                                                !.meeting_id = data.id]
                    ELSE saved.instance
    IN  [Meetup |-> saved.table, MeetupImages |-> created.table,
         instance |-> instance, raised |-> created.raised,
         trace |-> saved.trace \o deleted.trace \o created.trace \o called]

\* variant: the meetup's images are deleted first, as EditMeetupForm does
PastMeetup_save_replacing(self, commit, table, images) ==
    LET saved == ModelForm_save("Meetup", table, self.instance, commit)
        deleted == MeetupImages_filter_delete(images, saved.instance)
        created == MeetupImages_create(deleted.table, self.cleaned_data.images,
                                       saved.instance)
    IN  [Meetup |-> saved.table, MeetupImages |-> created.table,
         instance |-> saved.instance, raised |-> created.raised,
         trace |-> saved.trace \o deleted.trace \o created.trace]

PastMeetup_save(self, commit, table, images) ==
    LET saved == ModelForm_save("Meetup", table, self.instance, commit)
        created == MeetupImages_create(images, self.cleaned_data.images,
                                       saved.instance)
    IN  [Meetup |-> saved.table, MeetupImages |-> created.table,
         instance |-> saved.instance, raised |-> created.raised,
         trace |-> saved.trace \o created.trace]

\* what a request keeps of the meetup instance its save returned
Returned(instance) ==
    [is_virtual |-> instance.is_virtual, meet_link |-> instance.meet_link,
     start_url |-> instance.start_url, meeting_id |-> instance.meeting_id]

(* ------------------------------ submissions ---------------------------- *)
\* A submission is one request: the form is constructed and validated and,
\* when it is valid, saved.  An invalid form is not saved.  The submitted
\* time is validated and not stored in the rows modelled here, so a
\* submission is told by its date and by whether some time makes it valid
\* (then the cleaned date is the submitted date).  The instants of
\* one submission are not told apart: every reading is the clock's value
\* (SpecClean tells the readings of a validation apart).
Now == [i \in 1..3 |-> clock]
TotalRows ==
    Len(Meetup) + Len(RequestMeetup) + Len(Comment) + Len(Rsvp) + Len(SupportRequest)

Rejected(form) ==
    /\ last' = [op |-> form, valid |-> FALSE]
    /\ trace' = <<>>
    /\ UNCHANGED db

RequestMeetupForm_submit ==
    /\ Idle
    /\ \E created_by \in Users, date \in Dates, commit \in BOOLEAN, valid \in BOOLEAN :
        LET self == [user |-> created_by, instance |-> NewRequestMeetup(date)]
            s == RequestMeetupForm_save(self, commit, RequestMeetup)
        IN  /\ UNCHANGED clock
            /\ \E time \in Times : RequestMeetupForm_full_clean(date, time, Now).valid = valid
            /\ IF ~valid
               THEN Rejected("RequestMeetupForm")
               ELSE /\ commit => TotalRows < MaxRows
                    /\ RequestMeetup' = s.table
                    /\ trace' = s.trace
                    /\ last' = [op |-> "RequestMeetupForm", valid |-> TRUE,
                                user |-> created_by, commit |-> commit,
                                instance |-> s.instance]
                    /\ UNCHANGED <<Meetup, MeetupImages, Comment, Rsvp, SupportRequest>>

RequestVirtualMeetupForm_submit ==
    /\ Idle
    /\ \E created_by \in Users, date \in Dates, commit \in BOOLEAN, valid \in BOOLEAN :
        LET self == [user |-> created_by, instance |-> NewRequestMeetup(date)]
            s == RequestVirtualMeetupForm_save(self, commit, RequestMeetup)
        IN  /\ UNCHANGED clock
            /\ \E time \in Times : RequestVirtualMeetupForm_full_clean(date, time, Now).valid = valid
            /\ IF ~valid
               THEN Rejected("RequestVirtualMeetupForm")
               ELSE /\ commit => TotalRows < MaxRows
                    /\ RequestMeetup' = s.table
                    /\ trace' = s.trace
                    /\ last' = [op |-> "RequestVirtualMeetupForm", valid |-> TRUE,
                                user |-> created_by, commit |-> commit,
                                instance |-> s.instance]
                    /\ UNCHANGED <<Meetup, MeetupImages, Comment, Rsvp, SupportRequest>>

AddMeetupForm_submit ==
    /\ Idle
    /\ \E created_by \in Users, date \in Dates, is_virtual \in BOOLEAN,
       images \in Uploads, commit \in BOOLEAN, data \in Answers, valid \in BOOLEAN :
        LET self == [created_by |-> created_by,
                     instance |-> NewMeetup(date, is_virtual),
                     cleaned_data |-> [images |-> images]]
            s == AddMeetupForm_save(self, commit, data, Meetup, MeetupImages)
        IN  /\ UNCHANGED clock
            /\ \E time \in Times : AddMeetupForm_full_clean(date, time, Now).valid = valid
            /\ is_virtual <=> data # NoAnswer
            /\ IF ~valid
               THEN Rejected("AddMeetupForm")
               ELSE /\ commit => TotalRows < MaxRows
                    /\ BagCardinality(s.MeetupImages) <= MaxImages
                    /\ Meetup' = s.Meetup
                    /\ MeetupImages' = s.MeetupImages
                    /\ trace' = s.trace
                    /\ last' = [op |-> "AddMeetupForm", valid |-> TRUE,
                                user |-> created_by, commit |-> commit,
                                images |-> images, data |-> data,
                                instance |-> Returned(s.instance), raised |-> s.raised]
                    /\ UNCHANGED <<RequestMeetup, Comment, Rsvp, SupportRequest>>

\* the form is bound to a stored meetup; it has no clean method of its own
EditMeetupForm_submit ==
    /\ Idle
    /\ \E pk \in DOMAIN Meetup, date \in Dates, images \in Uploads,
       commit \in BOOLEAN, data \in Answers :
        LET self == [instance |-> [Meetup[pk] EXCEPT !.date = date],
                     cleaned_data |-> [images |-> images]]
            s == EditMeetupForm_save(self, commit, data, Meetup, MeetupImages)
        IN  /\ Meetup[pk].is_virtual <=> data # NoAnswer
            /\ BagCardinality(s.MeetupImages) <= MaxImages
            /\ Meetup' = s.Meetup
            /\ MeetupImages' = s.MeetupImages
            /\ trace' = s.trace
            /\ last' = [op |-> "EditMeetupForm", valid |-> TRUE, pk |-> pk,
                        commit |-> commit, images |-> images, data |-> data,
                        instance |-> Returned(s.instance), raised |-> s.raised]
            /\ UNCHANGED <<clock, RequestMeetup, Comment, Rsvp, SupportRequest>>

\* the form is bound to a stored meetup; its only model field is 'resources'
PastMeetup_submit ==
    /\ Idle
    /\ \E pk \in DOMAIN Meetup, images \in Uploads, commit \in BOOLEAN :
        LET self == [instance |-> Meetup[pk], cleaned_data |-> [images |-> images]]
            s == PastMeetup_save(self, commit, Meetup, MeetupImages)
        IN  /\ BagCardinality(s.MeetupImages) <= MaxImages
            /\ Meetup' = s.Meetup
            /\ MeetupImages' = s.MeetupImages
            /\ trace' = s.trace
            /\ last' = [op |-> "PastMeetup", valid |-> TRUE, pk |-> pk,
                        commit |-> commit, images |-> images, raised |-> s.raised]
            /\ UNCHANGED <<clock, RequestMeetup, Comment, Rsvp, SupportRequest>>

AddMeetupCommentForm_submit ==
    /\ Idle
    /\ \E content_object \in Objects, author \in Users, commit \in BOOLEAN :
        LET self == [content_object |-> content_object, author |-> author,
                     instance |-> NewComment]
            s == AddMeetupCommentForm_save(self, commit, Comment)
        IN  /\ commit => TotalRows < MaxRows
            /\ Comment' = s.table
            /\ trace' = s.trace
            /\ last' = [op |-> "AddMeetupCommentForm", valid |-> TRUE,
                        user |-> author, target |-> content_object,
                        commit |-> commit, instance |-> s.instance]
            /\ UNCHANGED <<clock, Meetup, MeetupImages, RequestMeetup, Rsvp, SupportRequest>>

AddSupportRequestCommentForm_submit ==
    /\ Idle
    /\ \E content_object \in Objects, author \in Users, commit \in BOOLEAN :
        LET self == [content_object |-> content_object, author |-> author,
                     instance |-> NewComment]
            s == AddSupportRequestCommentForm_save(self, commit, Comment)
        IN  /\ commit => TotalRows < MaxRows
            /\ Comment' = s.table
            /\ trace' = s.trace
            /\ last' = [op |-> "AddSupportRequestCommentForm", valid |-> TRUE,
                        user |-> author, target |-> content_object,
                        commit |-> commit, instance |-> s.instance]
            /\ UNCHANGED <<clock, Meetup, MeetupImages, RequestMeetup, Rsvp, SupportRequest>>

RsvpForm_submit ==
    /\ Idle
    /\ \E user \in Users, meetup \in Objects, commit \in BOOLEAN :
        LET self == [user |-> user, meetup |-> meetup, instance |-> NewRsvp]
            s == RsvpForm_save(self, commit, Rsvp)
        IN  /\ commit => TotalRows < MaxRows
            /\ Rsvp' = s.table
            /\ trace' = s.trace
            /\ last' = [op |-> "RsvpForm", valid |-> TRUE,
                        user |-> user, target |-> meetup,
                        commit |-> commit, instance |-> s.instance]
            /\ UNCHANGED <<clock, Meetup, MeetupImages, RequestMeetup, Comment, SupportRequest>>

AddSupportRequestForm_submit ==
    /\ Idle
    /\ \E volunteer \in Users, meetup \in Objects, commit \in BOOLEAN :
        LET self == [volunteer |-> volunteer, meetup |-> meetup,
                     instance |-> NewSupportRequest]
            s == AddSupportRequestForm_save(self, commit, SupportRequest)
        IN  /\ commit => TotalRows < MaxRows
            /\ SupportRequest' = s.table
            /\ trace' = s.trace
            /\ last' = [op |-> "AddSupportRequestForm", valid |-> TRUE,
                        user |-> volunteer, target |-> meetup,
                        commit |-> commit, instance |-> s.instance]
            /\ UNCHANGED <<clock, Meetup, MeetupImages, RequestMeetup, Comment, Rsvp>>

\* the meetup forms: a meetup is added, edited, and given images once past
Next ==
    \/ Tick
    \/ Respond
    \/ AddMeetupForm_submit
    \/ EditMeetupForm_submit
    \/ PastMeetup_submit

Spec == Init /\ [][Next]_vars

\* the forms whose save stamps the owner and the target
NextStamp ==
    \/ Respond
    \/ RequestMeetupForm_submit
    \/ RequestVirtualMeetupForm_submit
    \/ AddMeetupForm_submit
    \/ AddMeetupCommentForm_submit
    \/ AddSupportRequestCommentForm_submit
    \/ RsvpForm_submit
    \/ AddSupportRequestForm_submit

SpecStamp == Init /\ [][NextStamp]_vars

\* the forms that take a date: request, add, edit
NextDates ==
    \/ Tick
    \/ Respond
    \/ RequestMeetupForm_submit
    \/ RequestVirtualMeetupForm_submit
    \/ AddMeetupForm_submit
    \/ EditMeetupForm_submit

SpecDates == Init /\ [][NextDates]_vars

(* C1: in the three forms with a clean_date, a submitted date strictly     *)
(* earlier than the current date (the reading clean_date takes) raises a   *)
(* validation error, and a date equal to or later than it is returned      *)
(* unchanged.                                                              *)
C1_CleanDate ==
    last.op = "is_valid" =>
        /\ last.date < Date(last.now[1]) => last.cleaned.date.raised
        /\ last.date >= Date(last.now[1]) => last.cleaned.date = Return(last.date)

C1_Witness ==
    /\ last.op = "is_valid"
    /\ last.form = "AddMeetupForm"
    /\ last.date < Date(last.now[1])
    /\ last.cleaned.date.raised

(* C2: in the three forms, when the submitted date is the current date and *)
(* the submitted time is earlier than the current time, clean_time raises  *)
(* a validation error; for a date after today, or a time not earlier than  *)
(* the current time, clean_time returns the submitted time unchanged.      *)
C2_CleanTime ==
    last.op = "is_valid" =>
        /\ (/\ last.date = Date(last.now[2])
            /\ last.time # None
            /\ last.time < Time(last.now[3])) => last.cleaned.time.raised
        /\ (\/ last.date > Date(last.now[2])
            \/ last.time = None
            \/ last.time >= Time(last.now[3])) => last.cleaned.time = Return(last.time)

C2_Witness ==
    /\ last.op = "is_valid"
    /\ last.form = "RequestVirtualMeetupForm"
    /\ last.date = Date(last.now[2])
    /\ last.time # None
    /\ last.time < Time(last.now[3])
    /\ last.cleaned.time.raised

(* ------------------------- reading a request's trace -------------------- *)
Writes(tbl) ==
    {i \in DOMAIN trace : trace[i].tbl = tbl /\ trace[i].ev \in {"INSERT", "UPDATE"}}
Calls(fn) == {i \in DOMAIN trace : trace[i].ev = fn}
ImagesOf(table, pk) == [row \in {x \in DOMAIN table : x.meetup = pk} |-> table[row]]
ImagesNotOf(table, pk) == [row \in {x \in DOMAIN table : x.meetup # pk} |-> table[row]]
Submitted(images, pk) ==
    SeqToBag([i \in DOMAIN images |-> [image |-> images[i], meetup |-> pk]])
Saved == ~Idle /\ last.op # "is_valid" /\ last.valid

(* C3: the forms reject past dates: no save of a request, add or edit form *)
(* writes a Meetup or RequestMeetup row whose date is earlier than the     *)
(* current date at the moment of the write; this covers EditMeetupForm.    *)
C3_NoPastDateWritten ==
    Saved =>
        \A i \in Writes("Meetup") \cup Writes("RequestMeetup") :
            trace[i].row.date >= Date(clock)

(* C4: the seven stamping forms write, with save(commit=True), a record    *)
(* that carries at its first database write the owner (created_by /        *)
(* author / user / volunteer) equal to the SystersUser of the user given   *)
(* to the constructor and, where the form takes one, the target (meetup /  *)
(* content_object) given to the constructor; no record is ever stored      *)
(* without them.                                                           *)
TableOf(op) ==
    CASE op \in {"RequestMeetupForm", "RequestVirtualMeetupForm"} -> "RequestMeetup"
      [] op = "AddMeetupForm" -> "Meetup"
      [] op \in {"AddMeetupCommentForm", "AddSupportRequestCommentForm"} -> "Comment"
      [] op = "RsvpForm" -> "Rsvp"
      [] op = "AddSupportRequestForm" -> "SupportRequest"
Stamped(op, row, user) ==
    CASE op \in {"RequestMeetupForm", "RequestVirtualMeetupForm", "AddMeetupForm"} ->
            row.created_by = 100 + user
      [] op \in {"AddMeetupCommentForm", "AddSupportRequestCommentForm"} ->
            row.author = 100 + user /\ row.content_object = last.target
      [] op = "RsvpForm" ->
            row.user = 100 + user /\ row.meetup = last.target
      [] op = "AddSupportRequestForm" ->
            row.volunteer = 100 + user /\ row.meetup = last.target
C4_StampedAtFirstWrite ==
    /\ Saved =>
        /\ \A i \in Writes(TableOf(last.op)) : Stamped(last.op, trace[i].row, last.user)
        /\ last.commit => Writes(TableOf(last.op)) # {}
    /\ \A i \in DOMAIN Meetup : Meetup[i].created_by # None
    /\ \A i \in DOMAIN RequestMeetup : RequestMeetup[i].created_by # None
    /\ \A i \in DOMAIN Comment :
           Comment[i].author # None /\ Comment[i].content_object # None
    /\ \A i \in DOMAIN Rsvp : Rsvp[i].user # None /\ Rsvp[i].meetup # None
    /\ \A i \in DOMAIN SupportRequest :
           SupportRequest[i].volunteer # None /\ SupportRequest[i].meetup # None

C4_Witness ==
    /\ Saved /\ last.op = "RsvpForm" /\ last.commit
    /\ Len(trace) = 1 /\ trace[1].ev = "INSERT"
    /\ Rsvp[Len(Rsvp)] = trace[1].row
    /\ Rsvp[Len(Rsvp)].user = 100 + last.user
    /\ Rsvp[Len(Rsvp)].meetup = last.target

(* C5: AddMeetupForm.save calls create_meetup exactly once if and only if  *)
(* the meetup is virtual, before the meetup is written; the row written by *)
(* save(commit=True) has meet_link, start_url and meeting_id equal to the  *)
(* provider's join_url, start_url and id; for a non-virtual meetup the     *)
(* provider is never called and save leaves the three fields unset.        *)
C5_CreateDelegated ==
    (Saved /\ last.op = "AddMeetupForm") =>
        /\ Cardinality(Calls("create_meetup")) = (IF last.instance.is_virtual THEN 1 ELSE 0)
        /\ Calls("edit_meetup") = {} /\ Calls("get_meetup") = {}
        /\ \A c \in Calls("create_meetup"), w \in Writes("Meetup") : c < w
        /\ last.commit =>
              /\ Cardinality(Writes("Meetup")) = 1
              /\ \A w \in Writes("Meetup") : Meetup[trace[w].row.pk] = trace[w].row
        /\ \A w \in Writes("Meetup") :
              IF last.instance.is_virtual
              THEN /\ trace[w].row.meet_link = last.data.join_url
                   /\ trace[w].row.start_url = last.data.start_url
                   /\ trace[w].row.meeting_id = last.data.id
              ELSE /\ trace[w].row.meet_link = None
                   /\ trace[w].row.start_url = None
                   /\ trace[w].row.meeting_id = None

C5_Witness ==
    /\ Saved /\ last.op = "AddMeetupForm" /\ last.commit
    /\ last.instance.is_virtual
    /\ Calls("create_meetup") = {1}
    /\ Writes("Meetup") = {2}
    /\ Meetup[Len(Meetup)].meet_link = last.data.join_url
    /\ Meetup[Len(Meetup)].meeting_id = last.data.id

(* C6: after EditMeetupForm.save(commit=True) on a virtual meetup,         *)
(* edit_meetup has been called and then get_meetup, and the meetup row     *)
(* stored in the database has meet_link, start_url and meeting_id equal to *)
(* the join_url, start_url and id get_meetup returned.                     *)
C6_EditDelegatedAndStored ==
    (Saved /\ last.op = "EditMeetupForm" /\ last.commit /\ Meetup[last.pk].is_virtual) =>
        /\ \E e \in Calls("edit_meetup"), g \in Calls("get_meetup") : e < g
        /\ Meetup[last.pk].meet_link = last.data.join_url
        /\ Meetup[last.pk].start_url = last.data.start_url
        /\ Meetup[last.pk].meeting_id = last.data.id

(* C7: PastMeetup.save adds images: after save the stored images are the   *)
(* images stored before plus one new MeetupImages row per submitted image; *)
(* no image of this or any other meetup is deleted or changed, and with no *)
(* submitted image the images are unchanged.                               *)
C7_PastMeetupAddsImages ==
    [][(Idle /\ last'.op = "PastMeetup") =>
          /\ MeetupImages' = MeetupImages (+) Submitted(last'.images, last'.pk)
          /\ last'.images = <<>> => MeetupImages' = MeetupImages]_vars

C7_Witness ==
    /\ Saved /\ last.op = "PastMeetup"
    /\ last.images # <<>>
    /\ BagCardinality(ImagesOf(MeetupImages, last.pk)) > Len(last.images)

(* C8: EditMeetupForm.save replaces the meetup's images: after save the    *)
(* MeetupImages rows of the edited meetup are exactly the images submitted *)
(* with the form (none when no image was submitted), and the images of     *)
(* every other meetup are unchanged.                                       *)
C8_EditReplacesImages ==
    [][(Idle /\ last'.op = "EditMeetupForm") =>
          /\ ImagesOf(MeetupImages', last'.pk) = Submitted(last'.images, last'.pk)
          /\ ImagesNotOf(MeetupImages', last'.pk) = ImagesNotOf(MeetupImages, last'.pk)]_vars

C8_Witness ==
    /\ Saved /\ last.op = "EditMeetupForm"
    /\ \E i \in DOMAIN trace : trace[i].ev = "DELETE"
    /\ ImagesOf(MeetupImages, last.pk) = Submitted(last.images, last.pk)
    /\ ImagesNotOf(MeetupImages, last.pk) # EmptyBag

(* C9: for every form whose save takes a commit argument, save with        *)
(* commit=False performs no database write at all: no model record and no  *)
(* MeetupImages row is created, changed or deleted; in particular no       *)
(* MeetupImages row refers to a meetup that is not in the database.        *)
C9_CommitFalseWritesNothing ==
    [][/\ (Idle /\ last'.op \notin {"none", "is_valid"} /\ last'.valid /\ ~last'.commit)
            => UNCHANGED db
       /\ \A row \in DOMAIN MeetupImages' : row.meetup \in DOMAIN Meetup']_vars

====
